---- MODULE Spec2Model ----
(***************************************************************************)
(* A model of the growth-rate pipeline: read_data.py (read_figure_data,    *)
(* compute_growth_rates), plot_panels.py (the label de-overlap loops of    *)
(* create_panel_plot) and create_plots_xlsx.py (main).                     *)
(*                                                                         *)
(* Text is modelled at the level of characters: a string is a sequence of  *)
(* one-character strings, so that strip, startswith, split and float are   *)
(* computed the way Python computes them.  Tables keep Python's 0-based    *)
(* indices: data[i][j][k] with i in 0..3, j in 0..5, k in 0..4.            *)
(***************************************************************************)
EXTENDS Integers, Sequences, FiniteSets, TLC

VARIABLES
    pc,                 \* position of main (or of the label loop)
    outputs,            \* artifacts on disk produced by this run
    fault,              \* [step, error] of the fault that was raised, if any
    file,               \* content of data/input/figure_data.txt, one entry per line
    lines,              \* read_figure_data: lines = f.readlines()
    pos,                \* read_figure_data: position of the for loop in lines
    table_idx,          \* read_figure_data: table_idx
    row_idx,            \* read_figure_data: row_idx
    data,               \* the raw table
    years,              \* compute_growth_rates: years
    growth_rates,       \* the growth-rate table
    sheets,             \* content of growth_rates.xlsx: sheet name -> labelled table
    data_subset,        \* create_panel_plot: data_subset
    figs,               \* label styles of the panel images saved so far
    label_positions,    \* create_panel_plot: (top_)label_positions, as (y, text)
    adjusted_positions, \* create_panel_plot: adjusted_positions
    panel               \* create_panel_plot: which label loop runs ("top"/"bottom")

vars == << pc, outputs, fault, file, lines, pos, table_idx, row_idx, data, years,
           growth_rates, sheets, data_subset, figs,
           label_positions, adjusted_positions, panel >>

-----------------------------------------------------------------------------
(* Labels for the data dimensions (read_data.py lines 6-8).                *)

TABLE_NAMES ==
    << <<"A", "l", "l", "-", "c", "o", "u", "n", "t", "r", "y", " ",
         "a", "v", "e", "r", "a", "g", "e">>,
       <<"H", "i", "g", "h", "-", "i", "n", "c", "o", "m", "e", " ",
         "g", "r", "o", "u", "p">>,
       <<"M", "i", "d", "d", "l", "e", "-", "i", "n", "c", "o", "m", "e", " ",
         "g", "r", "o", "u", "p">>,
       <<"L", "o", "w", "-", "i", "n", "c", "o", "m", "e", " ",
         "g", "r", "o", "u", "p">> >>

ROW_LABELS ==
    << <<"N", "o", " ", "g", "r", "o", "w", "t", "h">>,
       <<"S", "S", "P", "1">>,
       <<"S", "S", "P", "2">>,
       <<"S", "S", "P", "3">>,
       <<"S", "S", "P", "4">>,
       <<"S", "S", "P", "5">> >>

COL_LABELS ==
    << <<"N", "o", " ", "w", "a", "r", "m", "i", "n", "g">>,
       <<"2", ".", "6", " ", "W", " ", "m", "-", "2">>,
       <<"4", ".", "5", " ", "W", " ", "m", "-", "2">>,
       <<"7", ".", "0", " ", "W", " ", "m", "-", "2">>,
       <<"8", ".", "5", " ", "W", " ", "m", "-", "2">> >>

\* The literal of line.startswith("No warming").
NO_WARMING == <<"N", "o", " ", "w", "a", "r", "m", "i", "n", "g">>

TAB == "\t"
NL == "\n"

\* The characters str.strip() and float() treat as whitespace.
WHITESPACE == {" ", "\t", "\n", "\r"}

Range(s) == {s[n] : n \in 1..Len(s)}

\* list.index(x), 0-based; x is in the list wherever the code calls it.
IndexOf(list, x) == (CHOOSE n \in 1..Len(list) : list[n] = x /\ \A m \in 1..(n-1) : list[m] # x) - 1

-----------------------------------------------------------------------------
(* Python string operations.                                               *)

RECURSIVE LStrip(_)
LStrip(s) == IF s # <<>> /\ Head(s) \in WHITESPACE THEN LStrip(Tail(s)) ELSE s

RECURSIVE RStrip(_)
RStrip(s) == IF s # <<>> /\ s[Len(s)] \in WHITESPACE THEN RStrip(SubSeq(s, 1, Len(s) - 1)) ELSE s

\* str.strip()
Strip(s) == RStrip(LStrip(s))

\* str.startswith(prefix)
StartsWith(s, prefix) == Len(s) >= Len(prefix) /\ SubSeq(s, 1, Len(prefix)) = prefix

\* str.split(sep) for a one-character separator: always at least one field.
RECURSIVE Split(_, _)
Split(s, sep) ==
    IF \A n \in 1..Len(s) : s[n] # sep
    THEN << s >>
    ELSE LET k == CHOOSE n \in 1..Len(s) : s[n] = sep /\ \A m \in 1..(n-1) : s[m] # sep
         IN  << SubSeq(s, 1, k - 1) >> \o Split(SubSeq(s, k + 1, Len(s)), sep)

DIGITS == {"0", "1", "2", "3", "4", "5", "6", "7", "8", "9"}

DigitValue(c) ==
    CASE c = "0" -> 0 [] c = "1" -> 1 [] c = "2" -> 2 [] c = "3" -> 3 [] c = "4" -> 4
      [] c = "5" -> 5 [] c = "6" -> 6 [] c = "7" -> 7 [] c = "8" -> 8 [] c = "9" -> 9

RECURSIVE DecimalValue(_)
DecimalValue(s) == IF s = <<>> THEN 0 ELSE 10 * DecimalValue(SubSeq(s, 1, Len(s) - 1)) + DigitValue(s[Len(s)])

IsDigits(s) == s # <<>> /\ \A n \in 1..Len(s) : s[n] \in DIGITS

\* float(v) on the literals the inputs draw: surrounding whitespace is dropped,
\* an optional sign and decimal digits give the number, anything else raises
\* ValueError.  (Literals with a fraction or an exponent are not drawn.)
Float(v) ==
    LET t == Strip(v)
        signed == t # <<>> /\ Head(t) \in {"-", "+"}
        body == IF signed THEN Tail(t) ELSE t
    IN  IF IsDigits(body)
        THEN [ok |-> TRUE, val |-> IF signed /\ Head(t) = "-" THEN 0 - DecimalValue(body) ELSE DecimalValue(body)]
        ELSE [ok |-> FALSE, val |-> 0]

\* str.replace(old, new) for one-character old and new.
Replace(s, old, new) == [n \in 1..Len(s) |-> IF s[n] = old THEN new ELSE s[n]]

\* s[:n]
Prefix(s, n) == SubSeq(s, 1, IF Len(s) < n THEN Len(s) ELSE n)

-----------------------------------------------------------------------------
(* read_figure_data (read_data.py lines 11-53).                            *)

\* np.zeros((4, 6, 5))
Zeros == [i \in 0..3 |-> [j \in 0..5 |-> [k \in 0..4 |-> 0]]]

\* f.readlines(): each line keeps its newline.
ReadLines(f) == [n \in 1..Len(f) |-> f[n] \o << NL >>]

\* line in TABLE_NAMES
IsTableHeader(line) == line \in Range(TABLE_NAMES)

\* line.startswith("No warming") or line.startswith("\t"), on the stripped line
IsColumnHeader(line) == StartsWith(line, NO_WARMING) \/ StartsWith(line, << TAB >>)

\* len(parts) >= 6 and parts[0] in ROW_LABELS
IsDataRow(parts) == Len(parts) >= 6 /\ parts[1] \in Range(ROW_LABELS)

\* A mutation of RowIndex: the label is not looked up and the cursor stays.
RowIndexStale(parts, cursor) == cursor

\* row_idx = ROW_LABELS.index(parts[0])
RowIndex(parts, cursor) == IndexOf(ROW_LABELS, parts[1])

\* [float(v) for v in parts[1:6]], each with its outcome
Floats(parts) == [k \in 0..4 |-> Float(parts[k + 2])]

\* A mutation of Layer: a negative index is clamped to the first layer.
LayerClamped(idx) == IF idx < 0 THEN 0 ELSE idx

\* numpy's resolution of the index on axis 0 (extent 4): a negative index
\* counts from the end.
Layer(idx) == IF idx < 0 THEN idx + 4 ELSE idx

\* Whether numpy accepts the index on axis 0.
InBounds(idx) == idx >= -4 /\ idx < 4

\* The loop's state before the first line (lines 23, 28, 29).
LoopStart == [table_idx |-> -1, row_idx |-> 0, data |-> Zeros, error |-> "none"]

\* One iteration of the for loop (lines 31-51) on the raw line, from the
\* loop state st.
LoopBody(st, raw) ==
    LET line == Strip(raw)
    IN  IF line = <<>>
        THEN st
        ELSE IF IsTableHeader(line)
        THEN [st EXCEPT !.table_idx = st.table_idx + 1, !.row_idx = 0]
        ELSE IF IsColumnHeader(line)
        THEN st
        ELSE LET parts == Split(line, TAB)
             IN  IF IsDataRow(parts)
                 THEN LET r == RowIndex(parts, st.row_idx)
                          values == Floats(parts)
                      IN  IF \E k \in 0..4 : ~values[k].ok
                          THEN [st EXCEPT !.row_idx = r, !.error = "ValueError"]
                          ELSE IF ~InBounds(st.table_idx)
                          THEN [st EXCEPT !.row_idx = r, !.error = "IndexError"]
                          ELSE [st EXCEPT !.row_idx = r,
                                          !.data[Layer(st.table_idx)][r] = [k \in 0..4 |-> values[k].val]]
                 ELSE st

RECURSIVE Loop(_, _, _)
Loop(st, ls, n) == IF n > Len(ls) \/ st.error # "none" THEN st ELSE Loop(LoopBody(st, ls[n]), ls, n + 1)

\* read_figure_data on a file with content f: the table returned, or the
\* error raised.
read_figure_data(f) == Loop(LoopStart, ReadLines(f), 1)

NoFault == [step |-> "none", error |-> "none"]

\* The artifact each step of main produces.
DIR == "data/output"
XLSX == "data/output/growth_rates.xlsx"
PNG_NUMERICAL == "data/output/panel_plot.png"
PNG_SCENARIO == "data/output/panel_plot_scenario.png"

\* The steps of main in the order of its statements (lines 26-57).
STEPS == << "makedirs", "open", "read", "compute", "export", "plot_numerical", "plot_scenario" >>

StepNumber(step) == CHOOSE n \in 1..Len(STEPS) : STEPS[n] = step

ArtifactOf(step) ==
    CASE step = "makedirs" -> {DIR}
      [] step = "export" -> {XLSX}
      [] step = "plot_numerical" -> {PNG_NUMERICAL}
      [] step = "plot_scenario" -> {PNG_SCENARIO}
      [] OTHER -> {}

\* A mutation of AfterStep: the fault is swallowed and main goes on.
AfterStepSwallowed(step, ok) == IF StepNumber(step) < Len(STEPS) THEN STEPS[StepNumber(step) + 1] ELSE "done"

\* Where main goes after a step: to the next statement, or out of main with
\* the exception, which nothing in main catches.
AfterStep(step, ok) ==
    IF ~ok THEN "aborted"
    ELSE IF StepNumber(step) < Len(STEPS) THEN STEPS[StepNumber(step) + 1] ELSE "done"

\* os.makedirs("data/output", exist_ok=True) (line 26).
MakeDirs ==
    /\ pc = "makedirs"
    /\ \E ok \in BOOLEAN :
          /\ pc' = AfterStep("makedirs", ok)
          /\ outputs' = IF ok THEN outputs \cup {DIR} ELSE outputs
          /\ fault' = IF ok THEN fault ELSE [step |-> "makedirs", error |-> "OSError"]
    /\ UNCHANGED << file, lines, pos, table_idx, row_idx, data, years, growth_rates, sheets,
                    data_subset, figs, label_positions, adjusted_positions, panel >>

\* Entry of read_figure_data (read_data.py lines 23-29): the table is
\* allocated, the file is opened and read, the counters are set.
OpenInput ==
    /\ pc = "open"
    /\ \E ok \in BOOLEAN :
          /\ pc' = AfterStep("open", ok)
          /\ fault' = IF ok THEN fault ELSE [step |-> "open", error |-> "OSError"]
          /\ lines' = IF ok THEN ReadLines(file) ELSE lines
    /\ data' = LoopStart.data
    /\ table_idx' = LoopStart.table_idx
    /\ row_idx' = LoopStart.row_idx
    /\ pos' = 1
    /\ UNCHANGED << outputs, file, years, growth_rates, sheets, data_subset, figs,
                    label_positions, adjusted_positions, panel >>

\* One iteration of the for loop of read_figure_data (lines 31-51).
ReadLine ==
    /\ pc = "read"
    /\ pos <= Len(lines)
    /\ LET st == LoopBody([table_idx |-> table_idx, row_idx |-> row_idx, data |-> data,
                           error |-> "none"], lines[pos])
       IN  /\ table_idx' = st.table_idx
           /\ row_idx' = st.row_idx
           /\ data' = st.data
           /\ pos' = IF st.error = "none" THEN pos + 1 ELSE pos
           /\ pc' = IF st.error = "none" THEN pc ELSE AfterStep("read", FALSE)
           /\ fault' = IF st.error = "none" THEN fault ELSE [step |-> "read", error |-> st.error]
    /\ UNCHANGED << outputs, file, lines, years, growth_rates, sheets, data_subset, figs,
                    label_positions, adjusted_positions, panel >>

\* return data (line 53).
ReadReturn ==
    /\ pc = "read"
    /\ pos > Len(lines)
    /\ pc' = AfterStep("read", TRUE)
    /\ UNCHANGED << outputs, fault, file, lines, pos, table_idx, row_idx, data, years,
                    growth_rates, sheets, data_subset, figs,
                    label_positions, adjusted_positions, panel >>

-----------------------------------------------------------------------------
(* Numbers of the growth-rate table.  A raw cell is an integer (a float    *)
(* with an integral value).  A derived cell is kept exact:                 *)
(*   kind "real":  times * ((num/den)^(1/root) - minus), num/den in lowest *)
(*                 terms with den > 0; root > 1 only when the root is      *)
(*                 irrational, and then minus and times record the         *)
(*                 operations applied after it;                            *)
(*   kind "inf", "-inf", "nan": the IEEE values numpy produces.            *)

RECURSIVE GCD(_, _)
GCD(a, b) == IF b = 0 THEN a ELSE GCD(b, a % b)

Abs(n) == IF n < 0 THEN 0 - n ELSE n

Special(kind) == [kind |-> kind, num |-> 0, den |-> 1, root |-> 1, minus |-> 0, times |-> 1]

\* The rational n/d, d # 0, in lowest terms.
Rat(n, d) ==
    LET g == GCD(Abs(n), Abs(d))
        sign == IF d < 0 THEN -1 ELSE 1
    IN  [kind |-> "real", num |-> sign * (n \div g), den |-> sign * (d \div g),
         root |-> 1, minus |-> 0, times |-> 1]

\* k^y by repeated squaring, or cap + 1 when k^y > cap
RECURSIVE PowCapped(_, _, _)
PowCapped(k, y, cap) ==
    IF y = 0 THEN 1
    ELSE LET h == PowCapped(k, y \div 2, cap)
             sq == IF h > cap THEN cap + 1 ELSE h * h
             p == IF sq > cap THEN cap + 1 ELSE IF y % 2 = 1 THEN sq * k ELSE sq
         IN  IF p > cap THEN cap + 1 ELSE p

RECURSIVE RootSearch(_, _, _)
RootSearch(k, n, y) == IF PowCapped(k, y, n) >= n THEN k ELSE RootSearch(k + 1, n, y)

\* The natural number whose y-th power is n, or -1 when there is none.
ExactRoot(n, y) == LET k == RootSearch(0, n, y) IN IF PowCapped(k, y, n) = n THEN k ELSE -1

\* data[i] / baseline, cell by cell (numpy: division by zero gives inf or nan)
Divide(v, baseline) ==
    IF baseline # 0 THEN Rat(v, baseline)
    ELSE IF v > 0 THEN Special("inf")
    ELSE IF v < 0 THEN Special("-inf")
    ELSE Special("nan")

\* normalized ** (1.0 / years), years >= 1
Power(x, y) ==
    IF x.kind = "nan" THEN x
    ELSE IF x.kind = "inf" THEN x
    ELSE IF x.kind = "-inf" THEN (IF y = 1 THEN x ELSE Special("inf"))
    ELSE IF y = 1 THEN x
    ELSE IF x.num < 0 THEN Special("nan")
    ELSE LET n == ExactRoot(x.num, y)
             d == ExactRoot(x.den, y)
         IN  IF n >= 0 /\ d >= 0 THEN Rat(n, d) ELSE [x EXCEPT !.root = y]

\* A mutation of MinusOne: the 1.0 is not subtracted.
MinusNothing(x) == x

\* ... - 1.0
MinusOne(x) ==
    IF x.kind # "real" THEN x
    ELSE IF x.root = 1 THEN Rat(x.num - x.den, x.den)
    ELSE [x EXCEPT !.minus = 1]

\* ... * 100
Times100(x) ==
    IF x.kind # "real" THEN x
    ELSE IF x.root = 1 THEN Rat(100 * x.num, x.den)
    ELSE [x EXCEPT !.times = 100]

\* A mutation of Baseline: every layer is divided by the first layer's cell.
BaselineOfFirstLayer(table, i) == table[0][0][0]

\* baseline = data[i, 0, 0]
Baseline(table, i) == table[i][0][0]

\* compute_growth_rates (read_data.py lines 56-79).
compute_growth_rates(table, y) ==
    [i \in 0..3 |->
        LET baseline == Baseline(table, i)
        IN  [j \in 0..5 |-> [k \in 0..4 |-> MinusOne(Power(Divide(table[i][j][k], baseline), y))]]]

\* growth_rates = compute_growth_rates(data) (create_plots_xlsx.py line 31).
ComputeGrowthRates ==
    /\ pc = "compute"
    /\ growth_rates' = compute_growth_rates(data, years)
    /\ pc' = AfterStep("compute", TRUE)
    /\ UNCHANGED << outputs, fault, file, lines, pos, table_idx, row_idx, data, years, sheets,
                    data_subset, figs, label_positions, adjusted_positions, panel >>

-----------------------------------------------------------------------------
(* The spreadsheet export (create_plots_xlsx.py lines 35-43).              *)

\* sheet_name = table_name.replace("-", " ")[:31]
SheetName(table_name) == Prefix(Replace(table_name, "-", " "), 31)

\* pd.DataFrame(growth_rates[i], index=ROW_LABELS, columns=COL_LABELS):
\* the labels are attached by position.
DataFrame(layer) ==
    [r \in Range(ROW_LABELS) |->
        [c \in Range(COL_LABELS) |-> layer[IndexOf(ROW_LABELS, r)][IndexOf(COL_LABELS, c)]]]

\* The workbook after the first n passes of the loop over TABLE_NAMES.
Workbook(table, n) ==
    [name \in {SheetName(TABLE_NAMES[m]) : m \in 1..n} |->
        DataFrame(table[(CHOOSE m \in 1..n : SheetName(TABLE_NAMES[m]) = name) - 1])]

\* The with block.  n = 4: every sheet is written and the file is saved;
\* 0 <= n < 4: a fault after n sheets, the writer is closed and the file is
\* left with them; n = -1: a fault before the file exists.
ExportExcel ==
    /\ pc = "export"
    /\ \E n \in -1..4 :
          /\ pc' = AfterStep("export", n = 4)
          /\ fault' = IF n = 4 THEN fault ELSE [step |-> "export", error |-> "OSError"]
          /\ outputs' = IF n >= 0 THEN outputs \cup {XLSX} ELSE outputs
          /\ sheets' = IF n >= 0 THEN Workbook(growth_rates, n) ELSE sheets
    /\ UNCHANGED << file, lines, pos, table_idx, row_idx, data, years, growth_rates,
                    data_subset, figs, label_positions, adjusted_positions, panel >>

-----------------------------------------------------------------------------
(* create_panel_plot as main calls it (plot_panels.py lines 50-225,        *)
(* create_plots_xlsx.py lines 48-57).                                      *)

\* data_subset = growth_rates[:, 1:6, 1:5] * 100: a new array
DataSubset(table) == [i \in 0..3 |-> [j \in 0..4 |-> [k \in 0..3 |-> Times100(table[i][j + 1][k + 1])]]]

PlotStep(label_style) == IF label_style = "numerical" THEN "plot_numerical" ELSE "plot_scenario"

\* A mutation of CreatePanelPlot: the table is converted to percent in place.
CreatePanelPlotInPlace(label_style) ==
    /\ pc = PlotStep(label_style)
    /\ data_subset' = DataSubset(growth_rates)
    /\ growth_rates' = [i \in 0..3 |-> [j \in 0..5 |-> [k \in 0..4 |->
                           IF j >= 1 /\ k >= 1 THEN Times100(growth_rates[i][j][k]) ELSE growth_rates[i][j][k]]]]
    /\ pc' = AfterStep(PlotStep(label_style), TRUE)
    /\ outputs' = outputs \cup ArtifactOf(PlotStep(label_style))
    /\ figs' = Append(figs, label_style)
    /\ UNCHANGED << fault, file, lines, pos, table_idx, row_idx, data, years, sheets,
                    label_positions, adjusted_positions, panel >>

\* fig, axes = create_panel_plot(growth_rates, label_style=...); plt.savefig(...).
\* "ok": the figure is drawn and saved; "fault": a fault before the image
\* file exists; "fault_partial": a fault in savefig with the file created.
CreatePanelPlot(label_style) ==
    /\ pc = PlotStep(label_style)
    /\ data_subset' = DataSubset(growth_rates)
    /\ \E outcome \in {"ok", "fault", "fault_partial"} :
          /\ pc' = AfterStep(PlotStep(label_style), outcome = "ok")
          /\ fault' = IF outcome = "ok" THEN fault ELSE [step |-> PlotStep(label_style), error |-> "Exception"]
          /\ outputs' = IF outcome = "fault" THEN outputs ELSE outputs \cup ArtifactOf(PlotStep(label_style))
          /\ figs' = IF outcome = "ok" THEN Append(figs, label_style) ELSE figs
    /\ UNCHANGED << file, lines, pos, table_idx, row_idx, data, years, growth_rates, sheets,
                    label_positions, adjusted_positions, panel >>

-----------------------------------------------------------------------------
(* Input files.                                                            *)

\* Fields joined by tabs.
RECURSIVE Join(_)
Join(fields) == IF Len(fields) = 1 THEN fields[1] ELSE fields[1] \o << TAB >> \o Join(Tail(fields))

N1000 == <<"1", "0", "0", "0">>
N1200 == <<"1", "2", "0", "0">>
N1500 == <<"1", "5", "0", "0">>
N1800 == <<"1", "8", "0", "0">>
N2200 == <<"2", "2", "0", "0">>
N4000 == <<"4", "0", "0", "0">>

FLAT == << N1000, N1000, N1000, N1000, N1000 >>
RISING == << N1000, N1200, N1500, N1800, N2200 >>
STEEP == << N4000, N4000, N2200, N1800, N1500 >>

Row(label, literals) == Join(<< label >> \o literals)

HeaderLine == Join(COL_LABELS)

\* The lines a short file is made of: blank, a table name, a column header,
\* data rows (one with a seventh field, one behind a leading tab), and rows
\* the parser cannot decode or does not recognise.
LinePool ==
    { << >>,
      << " " >> \o TABLE_NAMES[1] \o << " " >>,
      HeaderLine,
      Row(ROW_LABELS[1], FLAT),
      Row(ROW_LABELS[2], RISING),
      Row(ROW_LABELS[2], STEEP),
      Row(ROW_LABELS[3], RISING) \o << TAB >> \o N1000,
      << TAB >> \o Row(ROW_LABELS[4], STEEP),
      Row(ROW_LABELS[3], << N1000, <<"n", "/", "a">>, N1500, N1800, N2200 >>),
      Row(ROW_LABELS[5], << N1000, N1200, N1500, N1800 >>),
      Row(<<"S", "S", "P", "9">>, RISING) }

\* The lines of the files a whole run of main is given.
MainPool ==
    { << >>,
      TABLE_NAMES[1],
      TABLE_NAMES[2],
      HeaderLine,
      Row(ROW_LABELS[1], FLAT),
      Row(ROW_LABELS[3], RISING),
      Row(ROW_LABELS[3], << N1000, <<"n", "/", "a">>, N1500, N1800, N2200 >>) }

\* The longest file of free-form lines.
MaxLines == 3

Files(pool, n) == UNION {[1..m -> pool] : m \in 0..n}

\* The state in which f is the content of the input file, control is at
\* step start and y is the year count compute_growth_rates is given.
InitAt(f, start, y) ==
    /\ pc = start
    /\ outputs = {}
    /\ fault = NoFault
    /\ file = f
    /\ lines = <<>>
    /\ pos = 1
    /\ table_idx = LoopStart.table_idx
    /\ row_idx = LoopStart.row_idx
    /\ data = LoopStart.data
    /\ years = y
    /\ growth_rates = <<>>
    /\ sheets = <<>>
    /\ data_subset = <<>>
    /\ figs = <<>>
    /\ label_positions = <<>>
    /\ adjusted_positions = <<>>
    /\ panel = "none"

\* main starts at its first statement; compute_growth_rates(data) is called
\* with the default years=80 (read_data.py line 56).
Init == \E f \in Files(MainPool, MaxLines) : InitAt(f, "makedirs", 80)

\* main (create_plots_xlsx.py lines 24-59).
Next ==
    \/ MakeDirs
    \/ OpenInput
    \/ ReadLine
    \/ ReadReturn
    \/ ComputeGrowthRates
    \/ ExportExcel
    \/ CreatePanelPlot("numerical")
    \/ CreatePanelPlot("scenario")

Spec == Init /\ [][Next]_vars

-----------------------------------------------------------------------------
(* read_figure_data called on its own (read_data.py line 84).              *)

\* The most table-name lines of a sectioned file.
MaxSections == 5

SectionRows == { Row(ROW_LABELS[2], RISING), Row(ROW_LABELS[2], STEEP) }

\* No row, or one row.
OptionalRow == { << >> } \cup { << r >> : r \in SectionRows }

\* Orders of table names: the first four sections have distinct names.
NameOrders ==
    { s \in Files(Range(TABLE_NAMES), MaxSections) :
        \A m, n \in 1..Len(s) : (m < n /\ n <= 4) => s[m] # s[n] }

\* Sectioned files: at most one row ahead of any table name, the table names,
\* and at most one row after the last of them.
SectionFiles == { lead \o names \o trail : lead \in OptionalRow, names \in NameOrders, trail \in OptionalRow }

InitRead ==
    \E f \in Files(LinePool, MaxLines) \cup SectionFiles : InitAt(f, "open", 80)

NextRead ==
    \/ OpenInput
    \/ ReadLine
    \/ ReadReturn

SpecRead == InitRead /\ [][NextRead]_vars

-----------------------------------------------------------------------------
(* A whole run on a complete file: the four table names in the order of    *)
(* TABLE_NAMES, each followed by a column-header line and the six rows.    *)

\* The rows of one section: "No growth" flat at 1000, SSP2 rising from 1000
\* to 2200, the other rows with the literals given.
SectionOf(name, header, others, reversed) ==
    LET rows == << Row(ROW_LABELS[1], FLAT), Row(ROW_LABELS[2], others), Row(ROW_LABELS[3], RISING),
                   Row(ROW_LABELS[4], others), Row(ROW_LABELS[5], others), Row(ROW_LABELS[6], others) >>
    IN  << name, header >> \o (IF reversed THEN [n \in 1..6 |-> rows[7 - n]] ELSE rows)

CompleteFiles ==
    { SectionOf(TABLE_NAMES[1], header, others[1], reversed) \o SectionOf(TABLE_NAMES[2], header, others[2], reversed)
        \o SectionOf(TABLE_NAMES[3], header, others[3], reversed) \o SectionOf(TABLE_NAMES[4], header, others[4], reversed) :
        header \in {HeaderLine, << TAB >> \o HeaderLine},
        others \in [1..4 -> {FLAT, STEEP}],
        reversed \in BOOLEAN }

InitE2E == \E f \in CompleteFiles : InitAt(f, "makedirs", 80)

SpecE2E == InitE2E /\ [][Next]_vars

-----------------------------------------------------------------------------
(* compute_growth_rates called on its own, with a year count.              *)

BaselinePool == {-1000, 0, 1000, 4000}
CellPool == {-1000, 0, 1000, 2200, 4000}
YearPool == {1, 2, 3, 80}

\* Raw tables: a baseline cell per layer, and one value in the other cells.
GrowthTables ==
    { [i \in 0..3 |-> [j \in 0..5 |-> [k \in 0..4 |-> IF j = 0 /\ k = 0 THEN b[i] ELSE c]]] :
        b \in [0..3 -> BaselinePool], c \in CellPool }

InitGrowth ==
    /\ pc = "compute"
    /\ data \in GrowthTables
    /\ years \in YearPool
    /\ outputs = {}
    /\ fault = NoFault
    /\ file = <<>>
    /\ lines = <<>>
    /\ pos = 1
    /\ table_idx = LoopStart.table_idx
    /\ row_idx = LoopStart.row_idx
    /\ growth_rates = <<>>
    /\ sheets = <<>>
    /\ data_subset = <<>>
    /\ figs = <<>>
    /\ label_positions = <<>>
    /\ adjusted_positions = <<>>
    /\ panel = "none"

NextGrowth == ComputeGrowthRates

SpecGrowth == InitGrowth /\ [][NextGrowth]_vars

-----------------------------------------------------------------------------
(* The label de-overlap of create_panel_plot (plot_panels.py lines 116-128 *)
(* for the top panels, 192-204 for the bottom panels).  Positions are in   *)
(* hundredths of a percentage point.                                       *)

\* min_spacing = 0.25
min_spacing == 25

\* The most labels of one panel.
MaxLabels == 5

\* Candidate positions (hundredths).
YPool == {-20, 10, 15, 35, 90}

RECURSIVE InsertByY(_, _)
InsertByY(x, s) ==
    IF s = <<>> THEN << x >>
    ELSE IF x.y < Head(s).y THEN << x >> \o s
    ELSE << Head(s) >> \o InsertByY(x, Tail(s))

\* list.sort(key=lambda x: x[0]): ascending by y, equal keys keep their order
RECURSIVE SortedByY(_)
SortedByY(s) == IF s = <<>> THEN <<>> ELSE InsertByY(s[Len(s)], SortedByY(SubSeq(s, 1, Len(s) - 1)))

\* A mutation of AdjustedPosition: the second label is never adjusted.
AdjustedPositionFromThird(i, y_pos, adjusted) ==
    IF i > 1 /\ y_pos - adjusted[Len(adjusted)] < min_spacing
    THEN adjusted[Len(adjusted)] + min_spacing
    ELSE y_pos

\* The body of the adjustment loop (lines 121-122, 197-198).
AdjustedPosition(i, y_pos, adjusted) ==
    IF i > 0 /\ y_pos - adjusted[Len(adjusted)] < min_spacing
    THEN adjusted[Len(adjusted)] + min_spacing
    ELSE y_pos

\* The candidates as the loops at lines 92-114 and 156-173 append them: one
\* per scenario, text standing for the scenario's label.
Candidates == UNION { [1..n -> YPool] : n \in 1..MaxLabels }

InitLabels ==
    /\ pc = "sort"
    /\ panel \in {"top", "bottom"}
    /\ \E ys \in Candidates : label_positions = [n \in 1..Len(ys) |-> [y |-> ys[n], text |-> n]]
    /\ adjusted_positions = <<>>
    /\ outputs = {}
    /\ fault = NoFault
    /\ file = <<>>
    /\ lines = <<>>
    /\ pos = 1
    /\ table_idx = LoopStart.table_idx
    /\ row_idx = LoopStart.row_idx
    /\ data = LoopStart.data
    /\ years = 80
    /\ growth_rates = <<>>
    /\ sheets = <<>>
    /\ data_subset = <<>>
    /\ figs = <<>>

\* label_positions.sort(...); min_spacing = 0.25; adjusted_positions = []
SortLabels ==
    /\ pc = "sort"
    /\ label_positions' = SortedByY(label_positions)
    /\ adjusted_positions' = <<>>
    /\ pc' = "adjust"
    /\ UNCHANGED << outputs, fault, file, lines, pos, table_idx, row_idx, data, years,
                    growth_rates, sheets, data_subset, figs, panel >>

\* One iteration of for i, (y_pos, ...) in enumerate(label_positions)
AdjustLabel ==
    /\ pc = "adjust"
    /\ Len(adjusted_positions) < Len(label_positions)
    /\ LET i == Len(adjusted_positions)
       IN  adjusted_positions' =
               Append(adjusted_positions, AdjustedPosition(i, label_positions[i + 1].y, adjusted_positions))
    /\ UNCHANGED << pc, outputs, fault, file, lines, pos, table_idx, row_idx, data, years,
                    growth_rates, sheets, data_subset, figs, label_positions, panel >>

\* The labels are drawn at the adjusted positions (lines 126-128, 202-204).
PlaceLabels ==
    /\ pc = "adjust"
    /\ Len(adjusted_positions) = Len(label_positions)
    /\ pc' = "placed"
    /\ UNCHANGED << outputs, fault, file, lines, pos, table_idx, row_idx, data, years,
                    growth_rates, sheets, data_subset, figs,
                    label_positions, adjusted_positions, panel >>

NextLabels ==
    \/ SortLabels
    \/ AdjustLabel
    \/ PlaceLabels

SpecLabels == InitLabels /\ [][NextLabels]_vars

-----------------------------------------------------------------------------
(* What the loop of read_figure_data takes a raw line for.                 *)

\* The fields of a raw line that the loop reads as a data row (it passes the
\* tests of lines 33, 37, 43 and 48), or << >>.
DataRowOf(raw) ==
    LET line == Strip(raw)
        parts == Split(line, TAB)
    IN  IF line # <<>> /\ ~IsTableHeader(line) /\ ~IsColumnHeader(line) /\ IsDataRow(parts)
        THEN parts ELSE <<>>

IsRow(raw) == DataRowOf(raw) # <<>>

\* Every one of the five value fields is a number.
Decodes(raw) == IsRow(raw) /\ \A k \in 0..4 : Floats(DataRowOf(raw))[k].ok

LabelOf(raw) == IndexOf(ROW_LABELS, DataRowOf(raw)[1])

ValuesOf(raw) == [k \in 0..4 |-> Floats(DataRowOf(raw))[k].val]

IsName(raw) == IsTableHeader(Strip(raw))

\* The number of table-name lines ahead of line m of f: the section of line m.
SectionAt(f, m) == Cardinality({n \in 1..(m - 1) : IsName(f[n])})

\* read_figure_data has returned its table.
Returned == pc = "compute"

-----------------------------------------------------------------------------
(* Claims about read_figure_data, checked under SpecRead.                  *)

\* A well-formed file: every data row decodes, and no section holds two data
\* rows with the same label.
WellFormed(f) ==
    /\ \A m \in 1..Len(f) : IsRow(f[m]) => Decodes(f[m])
    /\ \A m, n \in 1..Len(f) :
          (m < n /\ IsRow(f[m]) /\ IsRow(f[n]) /\ SectionAt(f, m) = SectionAt(f, n))
             => LabelOf(f[m]) # LabelOf(f[n])

Swapped(f, m, n) == [f EXCEPT ![m] = f[n], ![n] = f[m]]

\* C1: rows are placed by their label, not by their position.  For a
\* well-formed file, exchanging any two data rows of one section (the
\* exchanges generate every permutation of the section's rows) gives a file
\* from which read_figure_data returns the same table.
C1_RowOrderIndependent ==
    (Returned /\ WellFormed(file)) =>
        \A m, n \in 1..Len(file) :
            (m < n /\ IsRow(file[m]) /\ IsRow(file[n]) /\ SectionAt(file, m) = SectionAt(file, n))
               => LET other == read_figure_data(Swapped(file, m, n))
                  IN  other.error = "none" /\ other.data = data

\* C1 witness: a returned table read from a well-formed file in which two
\* rows of one section stand against the order of ROW_LABELS.
C1_Witness ==
    /\ Returned
    /\ WellFormed(file)
    /\ \E m, n \in 1..Len(file) :
          /\ m < n /\ IsRow(file[m]) /\ IsRow(file[n])
          /\ SectionAt(file, m) = SectionAt(file, n)
          /\ LabelOf(file[m]) > LabelOf(file[n])
          /\ data[Layer(SectionAt(file, m) - 1)][LabelOf(file[m])] = ValuesOf(file[m])
          /\ ValuesOf(file[m]) # ValuesOf(file[n])

\* C2: read_figure_data raises only at a recognised data row with a value
\* field that is not a number; on every other input it returns a table.
C2_RaisesOnlyOnNonNumericRow ==
    (pc = "aborted" /\ fault.step = "read") => (IsRow(lines[pos]) /\ ~Decodes(lines[pos]))

\* C3: a line that begins with a tab never changes a cell of the table.
C3_LeadingTabLineSkipped ==
    [][(pc = "read" /\ pos <= Len(lines) /\ StartsWith(lines[pos], << TAB >>)) => data' = data]_vars

\* The labels of the decoded rows among the first n lines that stand ahead of
\* every table name.
LeadLabels(ls, n) == {LabelOf(ls[m]) : m \in {q \in 1..n : Decodes(ls[q]) /\ SectionAt(ls, q) = 0}}

\* The iteration of the loop that is about to run reads a decodable row.
AtRow == pc = "read" /\ pos <= Len(lines) /\ Decodes(lines[pos])

\* What C9 says about the iteration that reads a row ahead of any table
\* name: no error, the values go to the row's label in layer 3, the other
\* layers stay as they are.
C9_WrittenToLastLayer ==
    (AtRow /\ table_idx = -1) =>
        /\ pc' = "read"
        /\ fault' = NoFault
        /\ data'[3][LabelOf(lines[pos])] = ValuesOf(lines[pos])
        /\ \A i \in 0..2 : data'[i] = data[i]
        /\ \A r \in 0..5 : r # LabelOf(lines[pos]) => data'[3][r] = data[3][r]

\* C9 as stated: a row read ahead of any table name is written to layer 3
\* without an error, and its values are only ever replaced by a row with the
\* same label in the fourth section.
C9_Original ==
    [][/\ C9_WrittenToLastLayer
       /\ \A r \in 0..5 :
             (pc = "read" /\ r \in LeadLabels(lines, pos - 1) /\ data'[3][r] # data[3][r])
                => (table_idx = 3 /\ AtRow /\ LabelOf(lines[pos]) = r)]_vars

\* C9 as amended: the values are replaced only by a later row with the same
\* label that is itself ahead of any table name or in the fourth section.
C9_Amended ==
    [][/\ C9_WrittenToLastLayer
       /\ \A r \in 0..5 :
             (pc = "read" /\ data'[3][r] # data[3][r])
                => (table_idx \in {-1, 3} /\ AtRow /\ LabelOf(lines[pos]) = r)]_vars

\* C9 witness: the table is returned with the values of a row that stood
\* ahead of the first table name still in layer 3, after sections that did
\* not reach the fourth.
C9_Witness ==
    /\ Returned
    /\ table_idx \in 0..2
    /\ Decodes(file[1])
    /\ data[3][LabelOf(file[1])] = ValuesOf(file[1])
    /\ ValuesOf(file[1]) # Zeros[3][0]

\* Each of the four table names heads exactly one section of f.
EachNameOnce(f) == \A t \in 1..4 : Cardinality({n \in 1..Len(f) : Strip(f[n]) = TABLE_NAMES[t]}) = 1

\* The line with the table name that heads the section of line m (m is in a
\* section).
HeadOf(f, m) == CHOOSE n \in 1..(m - 1) : IsName(f[n]) /\ \A q \in (n + 1)..(m - 1) : ~IsName(f[q])

\* C10: when each table name appears exactly once, in any order, the rows
\* after the line TABLE_NAMES[g] are in layer g of the returned table.
C10_LayerOfNamedGroup ==
    (Returned /\ EachNameOnce(file)) =>
        \A m \in 1..Len(file) :
            (Decodes(file[m]) /\ SectionAt(file, m) > 0
               /\ \A n \in (m + 1)..Len(file) :
                     ~(IsRow(file[n]) /\ SectionAt(file, n) = SectionAt(file, m) /\ LabelOf(file[n]) = LabelOf(file[m])))
               => data[IndexOf(TABLE_NAMES, Strip(file[HeadOf(file, m)]))][LabelOf(file[m])] = ValuesOf(file[m])

-----------------------------------------------------------------------------
(* Claims about the whole run on a complete file, checked under SpecE2E.   *)

\* The with block of the export has ended without a fault.
Exported == XLSX \in outputs /\ fault.step # "export"

HIGH_INCOME_SHEET == <<"H", "i", "g", "h", " ", "i", "n", "c", "o", "m", "e", " ", "g", "r", "o", "u", "p">>

\* (n/d)^(1/y) - 1 for n/d in lowest terms with an irrational y-th root
RootMinusOne(n, d, y) == [kind |-> "real", num |-> n, den |-> d, root |-> y, minus |-> 1, times |-> 1]

\* The cell of the High-income sheet at row SSP2 and the column with label c.
Ssp2Cell(c) == sheets[HIGH_INCOME_SHEET][ROW_LABELS[3]][c]

\* C4 as stated: the cell at row SSP2, column 4.5 W m-2 of the High-income
\* sheet is (2200/1000)^(1/80) - 1.
C4_Original == Exported => Ssp2Cell(COL_LABELS[3]) = RootMinusOne(11, 5, 80)

\* C4 as amended: four sheets are written; the cell at row SSP2, column
\* 4.5 W m-2 of the High-income sheet comes from the row's third value, 1500:
\* it is (1500/1000)^(1/80) - 1; (2200/1000)^(1/80) - 1 is the cell of column
\* 8.5 W m-2.
C4_Amended ==
    Exported =>
        /\ Cardinality(DOMAIN sheets) = 4
        /\ Ssp2Cell(COL_LABELS[3]) = RootMinusOne(3, 2, 80)
        /\ Ssp2Cell(COL_LABELS[5]) = RootMinusOne(11, 5, 80)

\* C4 witness: a run on a complete file that reached "Done." with the
\* workbook written.
C4_Witness == pc = "done" /\ Exported /\ file \in CompleteFiles /\ HIGH_INCOME_SHEET \in DOMAIN sheets

-----------------------------------------------------------------------------
(* Claims about compute_growth_rates, checked under SpecGrowth.            *)

Zero == [kind |-> "real", num |-> 0, den |-> 1, root |-> 1, minus |-> 0, times |-> 1]

\* compute_growth_rates has returned.
Computed == pc = "export"

\* C5: when every baseline cell data[i,0,0] is strictly positive, the cell
\* growth_rates[i,0,0] is 0 for every income group i, whatever the (positive)
\* year count.
C5_BaselineIdentity ==
    (Computed /\ \A i \in 0..3 : data[i][0][0] > 0) => \A i \in 0..3 : growth_rates[i][0][0] = Zero

\* C5 witness: growth rates computed over 3 years from a table whose layers
\* have different positive baselines.
C5_Witness ==
    /\ Computed
    /\ years = 3
    /\ \A i \in 0..3 : data[i][0][0] > 0
    /\ data[0][0][0] # data[1][0][0]
    /\ growth_rates[1][0][1] # Zero

-----------------------------------------------------------------------------
(* Claims about the label de-overlap, checked under SpecLabels.            *)

Ys(positions) == [n \in 1..Len(positions) |-> positions[n].y]

\* C6: after the sort and the greedy adjustment the candidates are in
\* ascending order, consecutive adjusted positions are at least 0.25 apart
\* (so they ascend too), a label at least 0.25 above the previous adjusted
\* position keeps its own position, and the candidates 0.1, 0.15, 0.9 end at
\* 0.1, 0.35, 0.9.
C6_LabelsApart ==
    pc = "placed" =>
        /\ Len(adjusted_positions) = Len(label_positions)
        /\ \A n \in 2..Len(label_positions) : label_positions[n - 1].y <= label_positions[n].y
        /\ \A n \in 2..Len(adjusted_positions) : adjusted_positions[n] - adjusted_positions[n - 1] >= 25
        /\ \A n \in 1..Len(adjusted_positions) :
              (n = 1 \/ label_positions[n].y - adjusted_positions[n - 1] >= 25)
                 => adjusted_positions[n] = label_positions[n].y
        /\ Ys(label_positions) = << 10, 15, 90 >> => adjusted_positions = << 10, 35, 90 >>

\* C6 witness: the candidates 0.1, 0.15, 0.9 placed at 0.1, 0.35, 0.9.
C6_Witness ==
    /\ pc = "placed"
    /\ Ys(label_positions) = << 10, 15, 90 >>
    /\ adjusted_positions = << 10, 35, 90 >>

-----------------------------------------------------------------------------
(* Claims about main, checked under Spec.                                  *)

\* C7 as stated: a run that aborts with a fault has produced no artifact.
C7_Original == pc = "aborted" => outputs = {}

\* C7 as amended: a fault aborts the run at once, so no step after the
\* faulting one has produced its artifact, while the artifacts of the steps
\* before it stay; a run that reaches "Done." has produced all four.
C7_Amended ==
    /\ fault.step # "none" => pc = "aborted"
    /\ pc = "aborted" =>
          \A n \in 1..Len(STEPS) : n > StepNumber(fault.step) => ArtifactOf(STEPS[n]) \cap outputs = {}
    /\ pc = "done" => outputs = {DIR, XLSX, PNG_NUMERICAL, PNG_SCENARIO}

\* C7 witness: a run aborted in the second plot, with the directory, the
\* workbook and the first image on disk.
C7_Witness ==
    /\ pc = "aborted"
    /\ fault.step = "plot_scenario"
    /\ {DIR, XLSX, PNG_NUMERICAL} \subseteq outputs

\* C8: once read_figure_data has returned, no later step changes a cell of
\* the raw table; once compute_growth_rates has returned, neither the export
\* nor either call of create_panel_plot changes a cell of the growth-rate
\* table.
C8_TablesImmutable ==
    [][/\ pc \in {"compute", "export", "plot_numerical", "plot_scenario"} => data' = data
       /\ pc \in {"export", "plot_numerical", "plot_scenario"} => growth_rates' = growth_rates]_vars

\* C8 witness: a run that read a non-zero table and saved both images.
C8_Witness ==
    /\ pc = "done"
    /\ data # Zeros
    /\ figs = << "numerical", "scenario" >>
    /\ growth_rates = compute_growth_rates(data, 80)

====
